---- MODULE Spec2Model ----
(***************************************************************************)
(* State-machine model of src/snake.py: the Snake and Food classes and the *)
(* frame loop of main().  One frame of main() is: handle the pending       *)
(* events, one step per event (Quit, Restart, QuitKey, DirectionKey,       *)
(* IgnoredEvent), then run the game-logic phase (GameLogic).  Drawing and  *)
(* frame pacing do not change the state; the frame rate is the function    *)
(* CurrentFps of the score.                                                *)
(*                                                                         *)
(* The grid of the program is 40 x 30 cells (lines 10-16).  Every rule of  *)
(* the model is relative to GRID_WIDTH and GRID_HEIGHT, which are bounds   *)
(* of the model: the rules are checked on a small grid, where the snake    *)
(* can fill every cell.                                                    *)
(***************************************************************************)
EXTENDS Integers, Sequences, FiniteSets, TLC

VARIABLES
    positions,       \* snake.positions: sequence of cells, head first
    direction,       \* snake.direction
    next_direction,  \* snake.next_direction: a direction or None
    score,           \* snake.score
    color_index,     \* snake.color_index
    grow_pending,    \* snake.grow_pending
    food,            \* food.position
    game_over,       \* main: game_over
    running,         \* main: running
    event,           \* main: the loop variable `event` (last event handled)
    update_path,     \* the return path taken by the last call of snake.update()
    current_fps,     \* main: current_fps, 0 while no frame has assigned it yet
    pc               \* position of main() in its frame loop

vars == <<positions, direction, next_direction, score, color_index,
          grow_pending, food, game_over, running, event, update_path,
          current_fps, pc>>

snakeVars == <<positions, direction, next_direction, score, color_index,
               grow_pending>>

----------------------------------------------------------------------------
(* Bounds of the model *)

GRID_WIDTH == 3

GRID_HEIGHT == 2

MaxScore == 6

MaxGrows == 85

----------------------------------------------------------------------------
(* Program constants *)

INITIAL_FPS == 10

FPS_INCREASE_RATE == 5

NumSnakeColors == 8

UP == <<0, -1>>

DOWN == <<0, 1>>

LEFT == <<-1, 0>>

RIGHT == <<1, 0>>

None == <<>>

Directions == {UP, DOWN, LEFT, RIGHT}

Cells == (0 .. GRID_WIDTH - 1) \X (0 .. GRID_HEIGHT - 1)

Center == <<GRID_WIDTH \div 2, GRID_HEIGHT \div 2>>

Events == {"QUIT", "K_r", "K_q", "K_UP", "K_DOWN", "K_LEFT", "K_RIGHT",
           "K_SPACE", "MOUSEMOTION"}

----------------------------------------------------------------------------
(* Helpers *)

Range(s) == {s[i] : i \in 1 .. Len(s)}

Opposite(d) == <<d[1] * (-1), d[2] * (-1)>>

\* line 79 with inclusive upper bounds
InGridInclusive(c) ==
    /\ 0 <= c[1] /\ c[1] <= GRID_WIDTH
    /\ 0 <= c[2] /\ c[2] <= GRID_HEIGHT

InGrid(c) ==
    /\ 0 <= c[1] /\ c[1] < GRID_WIDTH
    /\ 0 <= c[2] /\ c[2] < GRID_HEIGHT

get_head_position(pos) == pos[1]

TailCell(pos) == pos[Len(pos)]

----------------------------------------------------------------------------
(* Snake.update, lines 59-103 *)

\* the reversal test of lines 67-68 left out
AdoptsAnyBuffered(dir, nd) == nd # None

\* line 68 without the negation: the buffer is compared with direction itself
AdoptsBufferedSameTest(dir, nd) == nd # None /\ nd # dir

\* lines 67-68: a buffered direction is adopted when it is set and its
\* negation is not the current direction
AdoptsBuffered(dir, nd) == nd # None /\ Opposite(nd) # dir

DirectionInEffect(dir, nd) == IF AdoptsBuffered(dir, nd) THEN nd ELSE dir

\* line 70 left out
BufferKept(dir, nd) == nd

BufferAfterUpdate(dir, nd) == IF AdoptsBuffered(dir, nd) THEN None ELSE nd

\* lines 73-75
NewHead(pos, d) == <<get_head_position(pos)[1] + d[1],
                     get_head_position(pos)[2] + d[2]>>

\* line 79 with the lower bounds only
WallCollisionOnlyLow(nh) == nh[1] < 0 \/ nh[2] < 0

\* line 79
WallCollision(nh) == ~InGrid(nh)

\* lines 84-90 left out
SelfCollisionNever(pos, nh, gp) == FALSE

\* line 87 without the grow_pending test
SelfCollisionTailAlwaysExempt(pos, nh, gp) ==
    /\ nh \in Range(pos)
    /\ nh # TailCell(pos)

\* lines 84-90
SelfCollision(pos, nh, gp) ==
    /\ nh \in Range(pos)
    /\ ~(nh = TailCell(pos) /\ gp = 0)

\* lines 97-101 with the tail always removed
MovedBodyNeverGrows(pos, nh, gp) == SubSeq(<<nh>> \o pos, 1, Len(pos))

\* lines 94-101
MovedBody(pos, nh, gp) ==
    IF gp > 0 THEN <<nh>> \o pos
    ELSE SubSeq(<<nh>> \o pos, 1, Len(pos))

\* line 98 left out
MovedGrowPendingKept(gp) == gp

MovedGrowPending(gp) == IF gp > 0 THEN gp - 1 ELSE gp

UpdatePath(pos, nh, gp) ==
    IF WallCollision(nh) THEN "wall"
    ELSE IF SelfCollision(pos, nh, gp) THEN "self"
    ELSE IF nh \in Range(pos) THEN "tail"
    ELSE "free"

\* lines 97-98 placed before the collision tests
UpdateConsumesGrowthOnCollision(pos, dir, nd, gp) ==
    LET d    == DirectionInEffect(dir, nd)
        nh   == NewHead(pos, d)
        hit  == WallCollision(nh) \/ SelfCollision(pos, nh, gp)
    IN  [positions      |-> IF hit THEN pos ELSE MovedBody(pos, nh, gp),
         direction      |-> d,
         next_direction |-> BufferAfterUpdate(dir, nd),
         grow_pending   |-> MovedGrowPending(gp),
         collided       |-> hit,
         path           |-> UpdatePath(pos, nh, gp)]

Update(pos, dir, nd, gp) ==
    LET d    == DirectionInEffect(dir, nd)
        nh   == NewHead(pos, d)
        hit  == WallCollision(nh) \/ SelfCollision(pos, nh, gp)
    IN  [positions      |-> IF hit THEN pos ELSE MovedBody(pos, nh, gp),
         direction      |-> d,
         next_direction |-> BufferAfterUpdate(dir, nd),
         grow_pending   |-> IF hit THEN gp ELSE MovedGrowPending(gp),
         collided       |-> hit,
         path           |-> UpdatePath(pos, nh, gp)]

----------------------------------------------------------------------------
(* Snake.grow, lines 105-112 *)

\* line 112 without the wrap to the palette size
GrowColorIndexNoWrap(newScore, ci) ==
    IF newScore > 0 /\ newScore % 10 = 0
    THEN ci + 1
    ELSE ci

GrowColorIndex(newScore, ci) ==
    IF newScore > 0 /\ newScore % 10 = 0
    THEN (ci + 1) % NumSnakeColors
    ELSE ci

\* line 107 left out
GrowForgetsPending(sc, ci, gp) ==
    [grow_pending |-> gp,
     score        |-> sc + 1,
     color_index  |-> GrowColorIndex(sc + 1, ci)]

Grow(sc, ci, gp) ==
    [grow_pending |-> gp + 1,
     score        |-> sc + 1,
     color_index  |-> GrowColorIndex(sc + 1, ci)]

----------------------------------------------------------------------------
(* Snake.reset, lines 123-130 *)

ResetPositions == <<Center>>

\* line 128 left out
ResetSnakeKeepsScore(d) ==
    /\ positions' = ResetPositions
    /\ direction' = d
    /\ next_direction' = d
    /\ color_index' = 0
    /\ grow_pending' = 0
    /\ UNCHANGED score

ResetSnake(d) ==
    /\ positions' = ResetPositions
    /\ direction' = d
    /\ next_direction' = d
    /\ score' = 0
    /\ color_index' = 0
    /\ grow_pending' = 0

----------------------------------------------------------------------------
(* Food.randomize_position, lines 139-148 *)

\* line 147 left out: the first sample is kept
FreeCellsNoExclusion(snake_positions) == Cells

\* the cells on which the sampling loop can end
FreeCells(snake_positions) == {c \in Cells : c \notin Range(snake_positions)}

\* line 282 without the division by FPS_INCREASE_RATE
CurrentFpsPerPoint(sc) == INITIAL_FPS + sc

\* lines 280-283
CurrentFps(sc) == INITIAL_FPS + (sc \div FPS_INCREASE_RATE)

----------------------------------------------------------------------------
(* main, lines 215-287 *)

AfterFrame == IF running THEN "frame_start" ELSE "exited"

InFrame == pc \in {"frame_start", "events"}

Init ==
    /\ positions = ResetPositions
    /\ direction \in Directions
    /\ next_direction = direction
    /\ score = 0
    /\ color_index = 0
    /\ grow_pending = 0
    /\ food \in FreeCells(positions)
    /\ game_over = FALSE
    /\ running = TRUE
    /\ event = "None"
    /\ update_path = "none"
    /\ current_fps = 0
    /\ pc = "frame_start"

KeyDirection(k) ==
    CASE k = "K_UP" -> UP
      [] k = "K_DOWN" -> DOWN
      [] k = "K_LEFT" -> LEFT
      [] k = "K_RIGHT" -> RIGHT

\* lines 234-235
Quit ==
    /\ InFrame
    /\ event' = "QUIT"
    /\ running' = FALSE
    /\ pc' = "events"
    /\ UNCHANGED <<snakeVars, food, game_over, update_path, current_fps>>

\* lines 240-241 left out: the flag is cleared on the snake as it died
RestartKeepsSnake ==
    /\ InFrame
    /\ game_over
    /\ event' = "K_r"
    /\ game_over' = FALSE
    /\ pc' = "events"
    /\ UNCHANGED <<snakeVars, food, running, update_path, current_fps>>

\* lines 238-242: snake.reset(); food.randomize_position(snake.positions)
Restart ==
    /\ InFrame
    /\ game_over
    /\ event' = "K_r"
    /\ \E d \in Directions : ResetSnake(d)
    /\ IF FreeCells(ResetPositions) = {}
       THEN /\ food' \in Cells
            /\ pc' = "relocating"
            /\ UNCHANGED game_over
       ELSE /\ food' \in FreeCells(ResetPositions)
            /\ game_over' = FALSE
            /\ pc' = "events"
    /\ UNCHANGED <<running, update_path, current_fps>>

\* line 243 not nested under the game_over test of line 237
QuitKeyAnyState ==
    /\ InFrame
    /\ event' = "K_q"
    /\ running' = FALSE
    /\ pc' = "events"
    /\ UNCHANGED <<snakeVars, food, game_over, update_path, current_fps>>

\* lines 243-244
QuitKey ==
    /\ InFrame
    /\ game_over
    /\ event' = "K_q"
    /\ running' = FALSE
    /\ pc' = "events"
    /\ UNCHANGED <<snakeVars, food, game_over, update_path, current_fps>>

\* line 117 writing the buffer only while it is empty
DirectionKeyFirstWins ==
    /\ InFrame
    /\ ~game_over
    /\ \E k \in {"K_UP", "K_DOWN", "K_LEFT", "K_RIGHT"} :
          /\ event' = k
          /\ next_direction' = IF next_direction = None
                                THEN KeyDirection(k)
                                ELSE next_direction
    /\ pc' = "events"
    /\ UNCHANGED <<positions, direction, score, color_index, grow_pending,
                   food, game_over, running, update_path, current_fps>>

\* lines 246-253 not guarded by the game_over test of line 237
DirectionKeyAnyState ==
    /\ InFrame
    /\ \E k \in {"K_UP", "K_DOWN", "K_LEFT", "K_RIGHT"} :
          /\ event' = k
          /\ next_direction' = KeyDirection(k)
    /\ pc' = "events"
    /\ UNCHANGED <<positions, direction, score, color_index, grow_pending,
                   food, game_over, running, update_path, current_fps>>

\* lines 245-253: Snake.change_direction, lines 114-117
DirectionKey ==
    /\ InFrame
    /\ ~game_over
    /\ \E k \in {"K_UP", "K_DOWN", "K_LEFT", "K_RIGHT"} :
          /\ event' = k
          /\ next_direction' = KeyDirection(k)
    /\ pc' = "events"
    /\ UNCHANGED <<positions, direction, score, color_index, grow_pending,
                   food, game_over, running, update_path, current_fps>>

\* every event the handlers ignore: another key in either state, a key of
\* the other state, an event that is neither QUIT nor KEYDOWN
IgnoredEvent ==
    /\ InFrame
    /\ \E e \in Events :
          /\ e # "QUIT"
          /\ game_over => e \notin {"K_r", "K_q"}
          /\ ~game_over => e \notin {"K_UP", "K_DOWN", "K_LEFT", "K_RIGHT"}
          /\ event' = e
    /\ pc' = "events"
    /\ UNCHANGED <<snakeVars, food, game_over, running, update_path,
                   current_fps>>

\* lines 256-263, then the end of the frame (lines 265-283, line 231)
GameLogic ==
    /\ InFrame
    /\ IF game_over
       THEN /\ pc' = AfterFrame
            /\ current_fps' = CurrentFps(score)
            /\ UNCHANGED <<snakeVars, food, game_over, update_path>>
       ELSE LET u == Update(positions, direction, next_direction, grow_pending)
            IN  /\ direction' = u.direction
                /\ next_direction' = u.next_direction
                /\ update_path' = u.path
                /\ game_over' = u.collided
                /\ positions' = u.positions
                /\ IF ~u.collided /\ get_head_position(u.positions) = food
                   THEN LET g == Grow(score, color_index, u.grow_pending)
                        IN  /\ score < MaxScore
                            /\ score' = g.score
                            /\ color_index' = g.color_index
                            /\ grow_pending' = g.grow_pending
                            /\ IF FreeCells(u.positions) = {}
                               THEN /\ food' \in Cells
                                    /\ pc' = "relocating"
                                    /\ UNCHANGED current_fps
                               ELSE /\ food' \in FreeCells(u.positions)
                                    /\ pc' = AfterFrame
                                    /\ current_fps' = CurrentFps(g.score)
                   ELSE /\ grow_pending' = u.grow_pending
                        /\ pc' = AfterFrame
                        /\ current_fps' = CurrentFps(score)
                        /\ UNCHANGED <<score, color_index, food>>
    /\ UNCHANGED <<running, event>>

\* lines 143-148 when no cell is free: every sample is on the snake and the
\* loop goes round again
Resample ==
    /\ pc = "relocating"
    /\ FreeCells(positions) = {}
    /\ food' \in Cells
    /\ UNCHANGED <<snakeVars, game_over, running, event, update_path,
                   current_fps, pc>>

Next ==
    \/ Quit
    \/ Restart
    \/ QuitKey
    \/ DirectionKey
    \/ IgnoredEvent
    \/ GameLogic
    \/ Resample

Spec == Init /\ [][Next]_vars

\* the loop of randomize_position keeps running while it can
FairSpec == Spec /\ WF_vars(Resample)

----------------------------------------------------------------------------
(* The Snake object driven through grow() and reset() alone *)

\* snake.grow()
GrowCall ==
    /\ score < MaxGrows
    /\ LET g == Grow(score, color_index, grow_pending)
       IN  /\ score' = g.score
           /\ color_index' = g.color_index
           /\ grow_pending' = g.grow_pending
    /\ UNCHANGED <<positions, direction, next_direction, food, game_over,
                   running, event, update_path, current_fps, pc>>

\* snake.reset()
ResetCall ==
    /\ \E d \in Directions : ResetSnake(d)
    /\ UNCHANGED <<food, game_over, running, event, update_path, current_fps,
                   pc>>

NextGrow ==
    \/ GrowCall
    \/ ResetCall

SpecGrow == Init /\ [][NextGrow]_vars

TypeOK ==
    /\ positions \in Seq(Cells) /\ Len(positions) >= 1
    /\ direction \in Directions
    /\ next_direction \in Directions \cup {None}
    /\ score \in 0 .. MaxGrows
    /\ color_index \in 0 .. NumSnakeColors - 1
    /\ grow_pending \in 0 .. MaxGrows
    /\ food \in Cells
    /\ game_over \in BOOLEAN
    /\ running \in BOOLEAN
    /\ event \in Events \cup {"None"}
    /\ update_path \in {"none", "wall", "self", "tail", "free"}
    /\ current_fps \in {0} \cup (INITIAL_FPS .. INITIAL_FPS + MaxGrows)
    /\ pc \in {"frame_start", "events", "relocating", "exited"}

----------------------------------------------------------------------------
(* Steps of the frame loop, as seen from the states before and after *)

\* a tick boundary: the input phase and the game-logic phase of a frame are done
TickBoundary == pc \in {"frame_start", "exited"}

\* a step in which one event of the event queue was handled
EventStep == InFrame /\ pc' = "events"

\* a step in which the game-logic phase ran snake.update()
UpdateStep == InFrame /\ ~game_over /\ pc' # "events"

\* a step in which the restart command was handled on the game-over screen
RestartStep == EventStep /\ game_over /\ event' = "K_r"

----------------------------------------------------------------------------
(* C1 *)

\* C1: at every tick boundary at which the session is not over, the food is
\* not on a cell of the snake's body.
C1_FoodNotOnSnake ==
    (TickBoundary /\ ~game_over) => food \notin Range(positions)

\* a tick boundary after food was eaten and relocated against a longer body
C1_Witness ==
    /\ TickBoundary /\ ~game_over
    /\ score >= 2 /\ Len(positions) >= 2 /\ grow_pending = 1
    /\ update_path \in {"free", "tail"}

----------------------------------------------------------------------------
(* C2 *)

\* C2: when the buffered direction at the start of update() is the exact
\* opposite of the current direction, direction is unchanged after update();
\* and no step other than a restart turns direction into its opposite, so two
\* consecutive ticks of a session never move the head in opposite directions.
C2_AntiReversal ==
    [][ /\ (UpdateStep /\ next_direction = Opposite(direction))
            => direction' = direction
        /\ (direction' = Opposite(direction)) => RestartStep ]_vars

\* a tick has just moved the snake while the buffered reversal was rejected
C2_Witness ==
    /\ pc = "frame_start" /\ ~game_over
    /\ next_direction = Opposite(direction)
    /\ update_path \in {"free", "tail"}

----------------------------------------------------------------------------
(* C3 *)

\* C3: in update(), when the new head cell is inside the grid and already in
\* the body, no collision is reported if and only if the new head equals the
\* tail cell and grow_pending is 0.
C3_SelfCollisionRule ==
    [][ UpdateStep =>
          LET nh == NewHead(positions, direction')
          IN  (InGrid(nh) /\ \E i \in 1 .. Len(positions) : positions[i] = nh)
                => (~game_over' <=>
                      (nh = positions[Len(positions)] /\ grow_pending = 0)) ]_vars

\* update() has reported a collision with the tail cell while growth was owed
C3_Witness ==
    /\ game_over /\ update_path = "self"
    /\ grow_pending > 0
    /\ NewHead(positions, direction) = positions[Len(positions)]

\* update() has moved the head onto the cell the tail vacated in the same tick
C3_TailPassReached ==
    /\ ~game_over /\ pc = "frame_start" /\ update_path = "tail"

----------------------------------------------------------------------------
(* C4 *)

\* C4: whenever head + direction in effect lies outside the grid, update()
\* reports a collision and leaves the body as it was; head (0,0) moving Left
\* and head (width-1, height-1) moving Right or Down collide.
C4_WallRule ==
    [][ UpdateStep =>
          LET h  == positions[1]
              nh == <<h[1] + direction'[1], h[2] + direction'[2]>>
          IN  /\ (nh[1] < 0 \/ nh[1] >= GRID_WIDTH \/ nh[2] < 0 \/ nh[2] >= GRID_HEIGHT)
                    => (game_over' /\ positions' = positions)
              /\ (h = <<0, 0>> /\ direction' = LEFT) => game_over'
              /\ (h = <<GRID_WIDTH - 1, GRID_HEIGHT - 1>>
                    /\ direction' \in {RIGHT, DOWN}) => game_over' ]_vars

\* update() has reported a wall collision at the bottom-right corner moving Down
C4_Witness ==
    /\ game_over /\ update_path = "wall"
    /\ positions[1] = <<GRID_WIDTH - 1, GRID_HEIGHT - 1>>
    /\ direction = DOWN
    /\ Len(positions) >= 2

----------------------------------------------------------------------------
(* C5 *)

\* a tick in which update() reported no collision
MoveStep == UpdateStep /\ ~game_over'

\* a tick in which the head landed on the food
EatStep == MoveStep /\ positions'[1] = food

\* C5 as stated: in the tick in which the head lands on the food the body
\* length is the same as before the tick, score increases by 1 and
\* grow_pending becomes 1; the next non-colliding update() lengthens the body
\* by 1; later non-colliding updates keep the length.
C5_AsStated ==
    [][ /\ EatStep => /\ Len(positions') = Len(positions)
                      /\ score' = score + 1
                      /\ grow_pending' = 1
        /\ (MoveStep /\ grow_pending = 1) => Len(positions') = Len(positions) + 1
        /\ (MoveStep /\ grow_pending = 0) => Len(positions') = Len(positions) ]_vars

\* C5 (amended): in the tick in which the head lands on the food, score
\* increases by 1 and grow_pending is 1 afterwards, and the body length is the
\* same as before the tick when grow_pending was 0 at its start; every
\* non-colliding update() lengthens the body by exactly the grow_pending it
\* found (1 after a grow(), tail kept; 0 afterwards), and leaves grow_pending
\* at 0 unless the head landed on the food again.
C5_DeferredGrowth ==
    [][ /\ EatStep => /\ score' = score + 1
                      /\ grow_pending' = 1
                      /\ (grow_pending = 0 => Len(positions') = Len(positions))
        /\ MoveStep => /\ Len(positions') = Len(positions) + grow_pending
                       /\ grow_pending \in {0, 1}
                       /\ positions'[1] # food => (grow_pending' = 0 /\ score' = score)
        /\ (MoveStep /\ grow_pending = 1) =>
               SubSeq(positions', 2, Len(positions')) = positions ]_vars

\* growth owed from an earlier food has been realised and a later food eaten
C5_Witness ==
    /\ pc = "frame_start" /\ ~game_over
    /\ score >= 2 /\ grow_pending = 1
    /\ Len(positions) = score
    /\ update_path = "free"

----------------------------------------------------------------------------
(* C6 *)

\* C6: the session starts in Playing; a tick sets game_over exactly when
\* update() reported a collision, and nothing but a tick sets it; game_over
\* is cleared only by the restart key handled while game over, which resets
\* the snake and relocates the food off the reset body.
C6_SessionStateMachine ==
    /\ ~game_over
    /\ [][ /\ UpdateStep =>
                LET nh == NewHead(positions, direction')
                IN  game_over' <=>
                      \/ ~InGrid(nh)
                      \/ /\ nh \in Range(positions)
                         /\ ~(nh = TailCell(positions) /\ grow_pending = 0)
           /\ (~game_over /\ game_over') => (UpdateStep /\ event' = event)
           /\ (game_over /\ ~game_over') =>
                /\ RestartStep
                /\ positions' = <<Center>>
                /\ next_direction' = direction'
                /\ score' = 0 /\ color_index' = 0 /\ grow_pending' = 0
                /\ food' \notin Range(positions') ]_vars

\* the session has gone Playing -> GameOver -> Playing: the restart key was
\* just handled after a collision
C6_Witness ==
    /\ ~game_over /\ pc = "events" /\ event = "K_r"
    /\ update_path \in {"wall", "self"}
    /\ food \notin Range(positions)

----------------------------------------------------------------------------
(* C7 *)

\* C7: while game_over holds, every step other than the handling of the
\* restart key leaves body, direction, buffered direction, score,
\* grow_pending, color tier and food position unchanged.
C7_FrozenGameOver ==
    [][ (game_over /\ ~RestartStep) =>
          UNCHANGED <<positions, direction, next_direction, score,
                      grow_pending, color_index, food>> ]_vars

\* a direction key was handled on the game-over screen of a grown snake
C7_Witness ==
    /\ game_over /\ pc = "events"
    /\ event \in {"K_UP", "K_DOWN", "K_LEFT", "K_RIGHT"}
    /\ Len(positions) >= 2

----------------------------------------------------------------------------
(* C8 *)

\* C8: a relocation always comes to an end (by returning or by raising
\* FoodPlacementExhausted to its caller), also when the body fills the grid.
C8_RelocateTerminates == (pc = "relocating") ~> (pc # "relocating")

\* the same as a property of states: the frame loop is never inside a
\* relocation that no sample can end
C8_NoEndlessSampling == ~(pc = "relocating" /\ FreeCells(positions) = {})

----------------------------------------------------------------------------
(* C9 *)

\* C9: after any sequence of grow() calls from a reset snake,
\* color_index = (score div 10) mod 8.
C9_ColorTier ==
    /\ color_index = (score \div 10) % 8
    /\ score \in 1 .. 9 => color_index = 0
    /\ score \in 10 .. 19 => color_index = 1
    /\ score \in 20 .. 29 => color_index = 2
    /\ score = 30 => color_index = 3
    /\ score = 80 => color_index = 0

\* eighty grow() calls after a reset: the tier has wrapped
C9_Witness == score = 80 /\ grow_pending = 80 /\ color_index = 0

----------------------------------------------------------------------------
(* C10 *)

\* C10: at session start and right after every restart the body is the
\* single cell (GRID_WIDTH div 2, GRID_HEIGHT div 2), direction is one of the
\* four unit directions, and score, color_index and grow_pending are 0.
C10_ResetState ==
    /\ positions = <<(<<GRID_WIDTH \div 2, GRID_HEIGHT \div 2>>)>>
    /\ direction \in {<<0, -1>>, <<0, 1>>, <<-1, 0>>, <<1, 0>>}
    /\ score = 0 /\ color_index = 0 /\ grow_pending = 0
    /\ [][ RestartStep =>
             /\ positions' = <<(<<GRID_WIDTH \div 2, GRID_HEIGHT \div 2>>)>>
             /\ direction' \in {<<0, -1>>, <<0, 1>>, <<-1, 0>>, <<1, 0>>}
             /\ score' = 0 /\ color_index' = 0 /\ grow_pending' = 0 ]_vars

\* the restart key was just handled after the snake ran into itself
C10_Witness ==
    /\ ~game_over /\ pc = "events" /\ event = "K_r"
    /\ update_path = "self"
    /\ Len(positions) = 1 /\ score = 0

----------------------------------------------------------------------------
(* C11 *)

DirectionKeys == {"K_UP", "K_DOWN", "K_LEFT", "K_RIGHT"}

\* a step in which a direction key was handled during active play
DirectionKeyStep == EventStep /\ ~game_over /\ event' \in DirectionKeys

\* C11: a restart (R) or quit (Q) key handled while the session is Playing
\* changes neither the snake, nor the food, nor game_over, nor running.
C11_InvalidCommandNoOp ==
    [][ (EventStep /\ ~game_over /\ event' \in {"K_r", "K_q"}) =>
          UNCHANGED <<positions, direction, next_direction, score,
                      color_index, grow_pending, food, game_over,
                      running>> ]_vars

\* the quit key was the last event handled, during play of a grown snake,
\* and the loop is still running
C11_Witness ==
    /\ ~game_over /\ running /\ pc = "events"
    /\ event = "K_q"
    /\ score >= 1 /\ Len(positions) >= 2

----------------------------------------------------------------------------
(* C12 *)

\* C12: at every tick boundary the body is non-empty, its cells are pairwise
\* distinct and inside the grid, and the food is inside the grid.
C12_BodyWellFormed ==
    TickBoundary =>
        /\ Len(positions) >= 1
        /\ \A i, j \in 1 .. Len(positions) :
              i # j => positions[i] # positions[j]
        /\ \A i \in 1 .. Len(positions) :
              /\ 0 <= positions[i][1] /\ positions[i][1] < GRID_WIDTH
              /\ 0 <= positions[i][2] /\ positions[i][2] < GRID_HEIGHT
        /\ 0 <= food[1] /\ food[1] < GRID_WIDTH
        /\ 0 <= food[2] /\ food[2] < GRID_HEIGHT

\* a tick boundary right after the head moved onto the cell the tail vacated
C12_Witness ==
    /\ pc = "frame_start" /\ ~game_over
    /\ update_path = "tail"
    /\ Len(positions) >= 4

----------------------------------------------------------------------------
(* C13 *)

\* C13: once the buffered direction is the exact opposite of the current
\* direction (the request update() rejects), no step other than the handling
\* of a new direction key or a restart changes direction, and the buffer
\* never turns into another request: over any number of ticks without new
\* input the direction stays what it was and never becomes the rejected one.
C13_DiscardNotRetry ==
    [][ (next_direction = Opposite(direction)
           /\ ~DirectionKeyStep /\ ~RestartStep) =>
          /\ direction' = direction
          /\ direction' # next_direction
          /\ next_direction' \in {next_direction, None} ]_vars

\* a tick has moved the snake against a rejected reversal, and the last
\* event handled in the frame was not a direction key
C13_Witness ==
    /\ pc = "frame_start" /\ ~game_over
    /\ next_direction = Opposite(direction)
    /\ event \in {"K_SPACE", "MOUSEMOTION"}
    /\ update_path = "free"

----------------------------------------------------------------------------
(* C14 *)

\* C14: when the buffered direction at the start of a tick is set and is not
\* the exact opposite of the current direction, the head moves by the
\* buffered direction, direction equals it after update() and the buffer is
\* empty after update(), also when update() ends in a collision.
C14_SameFrameTurn ==
    [][ (UpdateStep /\ next_direction # None
           /\ next_direction # Opposite(direction)) =>
          LET nh == <<positions[1][1] + next_direction[1],
                      positions[1][2] + next_direction[2]>>
          IN  /\ direction' = next_direction
              /\ next_direction' = None
              /\ IF game_over'
                 THEN /\ positions' = positions
                      /\ ~InGrid(nh) \/ nh \in Range(positions)
                 ELSE positions'[1] = nh ]_vars

\* a turn key was the last event handled and the tick has turned the head
\* by it: the head left the line of the two segments behind it
C14_Witness ==
    /\ pc = "frame_start" /\ ~game_over
    /\ event \in DirectionKeys
    /\ direction = KeyDirection(event)
    /\ next_direction = None
    /\ Len(positions) >= 3
    /\ positions[1] = <<positions[2][1] + direction[1],
                        positions[2][2] + direction[2]>>
    /\ positions[2] # <<positions[3][1] + direction[1],
                        positions[3][2] + direction[2]>>

----------------------------------------------------------------------------
(* C15 *)

\* a step that ends a frame: the frame rate of the frame has been assigned
FrameEndStep == InFrame /\ pc' \in {"frame_start", "exited"}

\* C15: at the end of every frame current_fps = 10 + score div 5: it is 10
\* at score 0 and in the first frame after a restart; from one frame to the
\* next of a session it never decreases, and it increases by exactly 1 when
\* the score reaches a multiple of 5 and not otherwise.
C15_TickRate ==
    [][ FrameEndStep =>
          /\ current_fps' = 10 + (score' \div 5)
          /\ score' = 0 => current_fps' = 10
          /\ (~game_over /\ event = "K_r" /\ pc = "events"
                /\ update_path \in {"wall", "self"}) => current_fps' = 10
          /\ (pc = "frame_start" /\ current_fps # 0) =>
                /\ current_fps' >= current_fps
                /\ current_fps' = current_fps
                     + (IF score' = score + 1 /\ score' % 5 = 0 THEN 1 ELSE 0) ]_vars

\* the frame in which the score reached 5 has ended with the rate raised
C15_Witness ==
    /\ pc = "frame_start" /\ ~game_over
    /\ score = 5 /\ grow_pending = 1
    /\ current_fps = 11

\* the restart key was just handled in a session that ended at the raised rate
C15_RestartReached ==
    /\ ~game_over /\ pc = "events" /\ event = "K_r"
    /\ score = 0 /\ current_fps = 11

----------------------------------------------------------------------------
(* C16 *)

\* C16: in a tick in which update() reports a collision, body, score,
\* grow_pending, color_index and food position are the same after the tick
\* as before it, also when the cell the head would have moved to is the food.
C16_CollisionTickNoEffect ==
    [][ (UpdateStep /\ game_over') =>
          UNCHANGED <<positions, score, grow_pending, color_index, food>> ]_vars

\* update() has reported a wall collision while growth was still owed
C16_Witness ==
    /\ game_over /\ pc = "frame_start"
    /\ update_path = "wall"
    /\ grow_pending = 1 /\ score >= 2

\* a collision whose would-be head cell is the food: never reached, the food
\* is inside the grid and off the body
C16_CollisionOnFoodNeverHappens ==
    ~(game_over /\ NewHead(positions, direction) = food)

----------------------------------------------------------------------------
(* C17 *)

\* C17: every direction command handled during play overwrites the buffer,
\* whatever it held, and leaves direction alone; update() looks at the
\* buffer only, so of several commands of one frame the last one decides:
\* if it is the exact opposite of the current direction, direction is
\* unchanged by the tick, whatever was buffered before it.
C17_LastWriteWins ==
    [][ /\ DirectionKeyStep =>
              /\ next_direction' = KeyDirection(event')
              /\ direction' = direction
        /\ UpdateStep =>
              /\ direction' \in {direction, next_direction}
              /\ next_direction = Opposite(direction) => direction' = direction ]_vars

\* the last command handled was a reversal and the tick has moved the snake
\* on in its old direction
C17_Witness ==
    /\ pc = "frame_start" /\ ~game_over
    /\ event \in DirectionKeys
    /\ KeyDirection(event) = Opposite(direction)
    /\ next_direction = KeyDirection(event)
    /\ update_path \in {"free", "tail"}

\* no reversal command ever overwrites a legal turn buffered by an earlier
\* command of the same frame (violated: that step happens)
C17_NoOverwriteOfLegalTurn ==
    [][ ~( /\ DirectionKeyStep
           /\ pc = "events" /\ event \in DirectionKeys
           /\ next_direction = KeyDirection(event)
           /\ next_direction \notin {direction, Opposite(direction)}
           /\ next_direction' = Opposite(direction) ) ]_vars

----------------------------------------------------------------------------
(* C18 *)

\* C18: at every tick boundary, len(body) + grow_pending = score + 1.
C18_LengthAccounting ==
    TickBoundary => Len(positions) + grow_pending = score + 1

\* a game-over tick boundary of a snake that died with growth still owed,
\* after three foods
C18_Witness ==
    /\ pc = "frame_start" /\ game_over
    /\ score = 3 /\ grow_pending = 1 /\ Len(positions) = 3

----------------------------------------------------------------------------
(* C19 *)

\* C19: at every tick boundary grow_pending is 0 or 1.
C19_BoundedGrowthDebt ==
    TickBoundary => grow_pending \in {0, 1}

\* a tick boundary after the third food, the growth of the second realised
C19_Witness ==
    /\ pc = "frame_start" /\ ~game_over
    /\ score = 3 /\ grow_pending = 1
    /\ update_path = "free"

----------------------------------------------------------------------------
(* C20 *)

\* the number of cells between the head h and the wall it faces in direction d
Room(h, d) ==
    CASE d = RIGHT -> GRID_WIDTH - 1 - h[1]
      [] d = LEFT  -> h[1]
      [] d = DOWN  -> GRID_HEIGHT - 1 - h[2]
      [] d = UP    -> h[2]

MaxSide == IF GRID_WIDTH >= GRID_HEIGHT THEN GRID_WIDTH ELSE GRID_HEIGHT

\* C20: without a further direction command a Playing session is over after
\* at most max(GRID_WIDTH, GRID_HEIGHT) ticks.  Stated step by step: the
\* room in front of the head in the direction of a tick is at most
\* max(GRID_WIDTH, GRID_HEIGHT) - 1; a tick with no room ends the session;
\* a tick that does not end it leaves one cell less room and a buffer that
\* cannot turn the snake; and between ticks nothing but a direction command
\* changes body, direction or buffer.
C20_UnsteeredDies ==
    [][ /\ UpdateStep =>
              LET room == Room(positions[1], direction')
              IN  /\ room \in 0 .. MaxSide - 1
                  /\ room = 0 => game_over'
                  /\ ~game_over' =>
                        /\ Room(positions'[1], direction') = room - 1
                        /\ next_direction' \in {None, Opposite(direction')}
        /\ (UpdateStep /\ next_direction \in {None, Opposite(direction)})
              => direction' = direction
        /\ (~game_over /\ ~UpdateStep /\ ~DirectionKeyStep) =>
              UNCHANGED <<positions, direction, next_direction, game_over>> ]_vars

\* a session in which no event was ever handled is over, food eaten on the way
C20_Witness ==
    /\ game_over /\ pc = "frame_start"
    /\ event = "None"
    /\ score >= 1
    /\ update_path = "wall"

====
